---- MODULE Spec2Model ----
(***************************************************************************)
(* Model of the lexical core of cpp_syn: the escape decoders of            *)
(* src/escape.rs (cooked_string, cooked_byte_string, cooked_char,          *)
(* cooked_byte, raw_string) and the trivia skipper of synom/src/space.rs   *)
(* (whitespace, block_comment, word_break), and the token matchers and     *)
(* list combinator of synom/src/helper.rs (punct, keyword, option!,        *)
(* epsilon!, separated_list).                                              *)
(*                                                                         *)
(* Input is a sequence of bytes (0..255) holding valid UTF-8.  A byte      *)
(* offset `off` is 0-based as in the source; the byte at offset off is     *)
(* input[off + 1].  Characters are Unicode code points (integers).         *)
(***************************************************************************)
EXTENDS Integers, Sequences, FiniteSets, TLC

VARIABLES input, pc, op, result, i, args, res

vars == <<input, pc, op, result, i, args, res>>

(***************************************************************************)
(* Bounds of the model.                                                    *)
(***************************************************************************)
MaxLen == 5
MaxCharLen == 3
MaxXLen == 3
MaxDigits == 7
MaxTrivia == 5
MaxComment == 9
MaxRaw == 8
MaxWord == 4
MaxList == 5

(***************************************************************************)
(* Characters the source names.                                            *)
(***************************************************************************)
TAB == 9
LF == 10
CR == 13
SPACE == 32
BANG == 33
QUOTE == 34
HASH == 35
APOSTROPHE == 39
STAR == 42
COMMA == 44
SLASH == 47
DIGIT0 == 48
DIGIT7 == 55
DIGIT9 == 57
SEMICOLON == 59
UPPER_A == 65
UPPER_F == 70
BACKSLASH == 92
LOWER_A == 97
LOWER_B == 98
LOWER_F == 102
LOWER_N == 110
LOWER_R == 114
LOWER_T == 116
LOWER_U == 117
LOWER_X == 120
LBRACE == 123
RBRACE == 125
NUL == 0
ASCII_LIMIT == 128
LRM == 8206
RLM == 8207

(***************************************************************************)
(* UTF-8: Rust's str is UTF-8; bytes() yields the encoding and             *)
(* char_indices() decodes it.                                              *)
(***************************************************************************)
len_utf8(ch) ==
    IF ch < 128 THEN 1
    ELSE IF ch < 2048 THEN 2
    ELSE IF ch < 65536 THEN 3
    ELSE 4

encode_utf8(ch) ==
    IF ch < 128 THEN <<ch>>
    ELSE IF ch < 2048 THEN <<192 + (ch \div 64), 128 + (ch % 64)>>
    ELSE IF ch < 65536 THEN
        <<224 + (ch \div 4096), 128 + ((ch \div 64) % 64), 128 + (ch % 64)>>
    ELSE
        <<240 + (ch \div 262144), 128 + ((ch \div 4096) % 64),
          128 + ((ch \div 64) % 64), 128 + (ch % 64)>>

RECURSIVE as_bytes(_)
as_bytes(cs) ==
    IF cs = <<>> THEN <<>> ELSE encode_utf8(Head(cs)) \o as_bytes(Tail(cs))

\* Width of the UTF-8 sequence introduced by lead byte b.
utf8_width(b) ==
    IF b < 128 THEN 1
    ELSE IF b < 224 THEN 2
    ELSE IF b < 240 THEN 3
    ELSE 4

\* The code point encoded at byte offset off (off is a character boundary).
decode_utf8(bytes, off) ==
    LET b0 == bytes[off + 1]
        w == utf8_width(b0)
        c(k) == bytes[off + 1 + k] % 64
    IN  IF w = 1 THEN b0
        ELSE IF w = 2 THEN (b0 % 32) * 64 + c(1)
        ELSE IF w = 3 THEN (b0 % 16) * 4096 + c(1) * 64 + c(2)
        ELSE (b0 % 8) * 262144 + c(1) * 4096 + c(2) * 64 + c(3)

\* char_indices().next() with the iterator at byte offset off:
\* None at the end, else Some((off, ch)) and the iterator moves to `next`.
chars_next(bytes, off) ==
    IF off >= Len(bytes)
    THEN [some |-> FALSE, off |-> off, ch |-> 0, next |-> off]
    ELSE [some |-> TRUE, off |-> off, ch |-> decode_utf8(bytes, off),
          next |-> off + utf8_width(bytes[off + 1])]

\* bytes().enumerate().next() with the iterator at byte offset off.
bytes_next(bytes, off) ==
    IF off >= Len(bytes)
    THEN [some |-> FALSE, off |-> off, ch |-> 0, next |-> off]
    ELSE [some |-> TRUE, off |-> off, ch |-> bytes[off + 1], next |-> off + 1]

\* char::is_whitespace: the Unicode White_Space property.
char_is_whitespace(ch) ==
    \/ ch \in 9..13
    \/ ch \in {32, 133, 160, 5760, 8232, 8233, 8239, 8287, 12288}
    \/ ch \in 8192..8202

\* char::from_u32: None for a surrogate or a value above 0x10FFFF.
char_from_u32(n) ==
    [some |-> n <= 1114111 /\ ~(n \in 55296..57343), val |-> n]

(***************************************************************************)
(* ParseState (the cursor) and IResult.  The cursor is the remaining       *)
(* input; advance(n) drops n bytes, until(n) is the first n bytes.         *)
(***************************************************************************)
advance(state, n) == SubSeq(state, n + 1, Len(state))

until(state, n) == SubSeq(state, 1, n)

finish(state) == <<>>

\* ParseState::len: the number of bytes that remain.
state_len(state) == Len(state)

starts_with(state, pat) ==
    /\ Len(pat) <= Len(state)
    /\ SubSeq(state, 1, Len(pat)) = pat

Done(rest, value) == [kind |-> "Done", rest |-> rest, value |-> value]

Error == [kind |-> "Error"]

\* str::is_char_boundary: offset n is the end of the input or the start
\* of a character (no continuation byte 0x80..0xBF).
is_char_boundary(state, n) ==
    \/ n = 0
    \/ n = Len(state)
    \/ n < Len(state) /\ ~(state[n + 1] \in 128..191)

\* Slicing a str off a character boundary panics: the call returns nothing.
Panic == [kind |-> "Panic"]

(***************************************************************************)
(* src/escape.rs: hexadecimal escapes.                                     *)
(***************************************************************************)
is_hex_digit(ch) ==
    \/ ch \in DIGIT0..DIGIT9
    \/ ch \in LOWER_A..LOWER_F
    \/ ch \in UPPER_A..UPPER_F

\* One digit of from_str_radix(_, 16).
hex_digit_value(ch) ==
    IF ch \in DIGIT0..DIGIT9 THEN ch - DIGIT0
    ELSE IF ch \in LOWER_A..LOWER_F THEN ch - LOWER_A + 10
    ELSE ch - UPPER_A + 10

RECURSIVE from_hex(_)
from_hex(digits) ==
    IF digits = <<>> THEN 0
    ELSE 16 * from_hex(SubSeq(digits, 1, Len(digits) - 1))
         + hex_digit_value(digits[Len(digits)])

\* An Option with the iterator position after the call.
None(off) == [some |-> FALSE, val |-> 0, next |-> off]

Some(val, off) == [some |-> TRUE, val |-> val, next |-> off]

\* Mutant of x_char_first_digit: any hex digit, as in backslash_x_byte.
x_char_any_digit(ch) == is_hex_digit(ch)

\* next_ch!(chars @ '0'...'7')
x_char_first_digit(ch) == ch \in DIGIT0..DIGIT7

backslash_x_char(bytes, off) ==
    LET a == chars_next(bytes, off)
    IN  IF ~a.some \/ ~x_char_first_digit(a.ch) THEN None(a.next)
        ELSE LET b == chars_next(bytes, a.next)
             IN  IF ~b.some \/ ~is_hex_digit(b.ch) THEN None(b.next)
                 ELSE LET c == char_from_u32(from_hex(<<a.ch, b.ch>>))
                      IN  IF c.some THEN Some(c.val, b.next) ELSE None(b.next)

backslash_x_byte(bytes, off) ==
    LET a == bytes_next(bytes, off)
    IN  IF ~a.some \/ ~is_hex_digit(a.ch) THEN None(a.next)
        ELSE LET b == bytes_next(bytes, a.next)
             IN  IF ~b.some \/ ~is_hex_digit(b.ch) THEN None(b.next)
                 ELSE Some(from_hex(<<a.ch, b.ch>>), b.next)

\* How many hex digits backslash_u reads before it insists on '}'.
MAX_U_DIGITS == 6

\* char::from_u32(from_hex!(...)) at the closing brace.
u_value(digits, off) ==
    LET c == char_from_u32(from_hex(digits))
    IN  IF c.some THEN Some(c.val, off) ELSE None(off)

\* backslash_u after the digits read so far (at least one).
RECURSIVE backslash_u_digits(_, _, _)
backslash_u_digits(bytes, off, digits) ==
    LET n == chars_next(bytes, off)
    IN  IF ~n.some THEN None(n.next)
        ELSE IF n.ch = RBRACE THEN u_value(digits, n.next)
        ELSE IF Len(digits) < MAX_U_DIGITS /\ is_hex_digit(n.ch)
             THEN backslash_u_digits(bytes, n.next, Append(digits, n.ch))
        ELSE None(n.next)

backslash_u(bytes, off) ==
    LET open == chars_next(bytes, off)
    IN  IF ~open.some \/ open.ch # LBRACE THEN None(open.next)
        ELSE LET a == chars_next(bytes, open.next)
             IN  IF ~a.some \/ ~is_hex_digit(a.ch) THEN None(a.next)
                 ELSE backslash_u_digits(bytes, a.next, <<a.ch>>)

(***************************************************************************)
(* src/escape.rs: the four cooked decoders.                                *)
(***************************************************************************)
\* The escapes that map one character to one value in all four decoders.
is_simple_escape(ch) ==
    ch \in {LOWER_N, LOWER_R, LOWER_T, BACKSLASH, DIGIT0, APOSTROPHE, QUOTE}

simple_escape(ch) ==
    IF ch = LOWER_N THEN LF
    ELSE IF ch = LOWER_R THEN CR
    ELSE IF ch = LOWER_T THEN TAB
    ELSE IF ch = DIGIT0 THEN NUL
    ELSE ch

\* Mutant of string_done: the closing quote is consumed.
string_done_past(state, byte_offset, s) ==
    Done(advance(state, byte_offset + 1), s)

\* cooked_string's closing quote: the cursor of the result.
string_done(state, byte_offset, s) == Done(advance(state, byte_offset), s)

\* Mutant of string_crlf: a carriage return is a line ending by itself.
string_cr_alone(m) == TRUE

\* if let Some((_, '\n')) = chars.next()
string_crlf(m) == m.some /\ m.ch = LF

\* Mutant of skip_continuation: one whitespace character is skipped.
skip_continuation_one(bytes, off) ==
    LET n == chars_next(bytes, off)
    IN  IF n.some /\ char_is_whitespace(n.ch) THEN n.next ELSE off

\* The peek loop of a line continuation: the offset of the first character
\* that is not whitespace, or the end of the input.
RECURSIVE skip_continuation(_, _)
skip_continuation(bytes, off) ==
    LET n == chars_next(bytes, off)
    IN  IF n.some /\ char_is_whitespace(n.ch)
        THEN skip_continuation(bytes, n.next)
        ELSE off

\* The body of cooked_string's while loop with the iterator at offset off.
RECURSIVE cooked_string_loop(_, _, _)
cooked_string_loop(state, off, s) ==
    LET n == chars_next(state, off)
    IN  IF ~n.some THEN Error
        ELSE IF n.ch = QUOTE THEN string_done(state, n.off, s)
        ELSE IF n.ch = CR THEN
            LET m == chars_next(state, n.next)
            IN  IF string_crlf(m)
                THEN cooked_string_loop(state, m.next, Append(s, LF))
                ELSE Error
        ELSE IF n.ch = BACKSLASH THEN
            LET e == chars_next(state, n.next)
            IN  IF ~e.some THEN Error
                ELSE IF e.ch = LOWER_X THEN
                    LET x == backslash_x_char(state, e.next)
                    IN  IF x.some
                        THEN cooked_string_loop(state, x.next, Append(s, x.val))
                        ELSE Error
                ELSE IF e.ch = LOWER_U THEN
                    LET u == backslash_u(state, e.next)
                    IN  IF u.some
                        THEN cooked_string_loop(state, u.next, Append(s, u.val))
                        ELSE Error
                ELSE IF is_simple_escape(e.ch)
                    THEN cooked_string_loop(state, e.next,
                                            Append(s, simple_escape(e.ch)))
                ELSE IF e.ch = LF \/ e.ch = CR
                    THEN cooked_string_loop(state,
                                            skip_continuation(state, e.next), s)
                ELSE Error
        ELSE cooked_string_loop(state, n.next, Append(s, n.ch))

cooked_string(state) == cooked_string_loop(state, 0, <<>>)

\* cooked_byte_string's line continuation: the offset in `rest` of the
\* first character that is not whitespace, or -1 when there is none.
RECURSIVE find_non_whitespace(_, _)
find_non_whitespace(rest, off) ==
    LET n == chars_next(rest, off)
    IN  IF ~n.some THEN -1
        ELSE IF ~char_is_whitespace(n.ch) THEN n.off
        ELSE find_non_whitespace(rest, n.next)

\* The guard of the arm that copies a byte through.
byte_string_plain(b) == b < ASCII_LIMIT

\* The body of cooked_byte_string's 'outer loop.
RECURSIVE cooked_byte_string_loop(_, _, _)
cooked_byte_string_loop(state, off, vec) ==
    LET n == bytes_next(state, off)
    IN  IF ~n.some THEN Error
        ELSE IF n.ch = QUOTE THEN Done(advance(state, n.off), vec)
        ELSE IF n.ch = CR THEN
            LET m == bytes_next(state, n.next)
            IN  IF m.some /\ m.ch = LF
                THEN cooked_byte_string_loop(state, m.next, Append(vec, LF))
                ELSE Error
        ELSE IF n.ch = BACKSLASH THEN
            LET e == bytes_next(state, n.next)
            IN  IF ~e.some THEN Error
                ELSE IF e.ch = LOWER_X THEN
                    LET x == backslash_x_byte(state, e.next)
                    IN  IF x.some
                        THEN cooked_byte_string_loop(state, x.next,
                                                     Append(vec, x.val))
                        ELSE Error
                ELSE IF is_simple_escape(e.ch)
                    THEN cooked_byte_string_loop(state, e.next,
                                                 Append(vec, simple_escape(e.ch)))
                ELSE IF e.ch = LF \/ e.ch = CR THEN
                    LET rest == advance(state, e.off + 1)
                        offset == find_non_whitespace(rest, 0)
                    IN  IF offset < 0 THEN Error
                        ELSE cooked_byte_string_loop(advance(rest, offset), 0, vec)
                ELSE Error
        ELSE IF byte_string_plain(n.ch)
            THEN cooked_byte_string_loop(state, n.next, Append(vec, n.ch))
        ELSE Error

cooked_byte_string(state) == cooked_byte_string_loop(state, 0, <<>>)

\* Mutant of char_done: the value must be followed by the apostrophe or
\* by the end of the input.
char_done_strict(state, ch, off) ==
    LET n == chars_next(state, off)
    IN  IF ~ch.some THEN Error
        ELSE IF n.some /\ n.ch = APOSTROPHE
            THEN Done(advance(state, n.off), ch.val)
        ELSE IF n.some THEN Error
        ELSE Done(finish(state), ch.val)

\* The final match of cooked_char: the cursor stops at whatever follows
\* the decoded character.
char_done(state, ch, off) ==
    LET n == chars_next(state, off)
    IN  IF ~ch.some THEN Error
        ELSE IF n.some THEN Done(advance(state, n.off), ch.val)
        ELSE Done(finish(state), ch.val)

cooked_char(state) ==
    LET n == chars_next(state, 0)
    IN  IF ~n.some THEN Error
        ELSE IF n.ch = BACKSLASH THEN
            LET e == chars_next(state, n.next)
            IN  IF ~e.some THEN Error
                ELSE IF e.ch = LOWER_X
                    THEN LET x == backslash_x_char(state, e.next)
                         IN  char_done(state, x, x.next)
                ELSE IF e.ch = LOWER_U
                    THEN LET u == backslash_u(state, e.next)
                         IN  char_done(state, u, u.next)
                ELSE IF is_simple_escape(e.ch)
                    THEN char_done(state, Some(simple_escape(e.ch), e.next), e.next)
                ELSE Error
        ELSE char_done(state, Some(n.ch, n.next), n.next)

\* The first match of cooked_byte: the byte the literal stands for.  An
\* unescaped byte is taken as it is, whatever its value.
cooked_byte_value(state) ==
    LET n == bytes_next(state, 0)
    IN  IF ~n.some THEN None(n.next)
        ELSE IF n.ch = BACKSLASH THEN
            LET e == bytes_next(state, n.next)
            IN  IF ~e.some THEN None(e.next)
                ELSE IF e.ch = LOWER_X THEN backslash_x_byte(state, e.next)
                ELSE IF is_simple_escape(e.ch)
                    THEN Some(simple_escape(e.ch), e.next)
                ELSE None(e.next)
        ELSE Some(n.ch, n.next)

\* The final match of cooked_byte.  The cursor is cut at the byte after
\* the value; the input is a str, so a cut inside a character (after the
\* lead byte of a character outside ASCII) panics in the slicing.
cooked_byte(state) ==
    LET b == cooked_byte_value(state)
        n == bytes_next(state, b.next)
    IN  IF ~b.some THEN Error
        ELSE IF n.some THEN
            IF is_char_boundary(state, n.off)
            THEN Done(advance(state, n.off), b.val)
            ELSE Panic
        ELSE Done(finish(state), b.val)

(***************************************************************************)
(* src/escape.rs: raw_string.                                              *)
(***************************************************************************)
\* The first loop: the byte offset of the opening quote; -1 when a
\* character other than '#' comes first (return Error); n stays 0 when
\* the input ends before a quote.
RECURSIVE raw_string_open(_, _)
raw_string_open(state, off) ==
    LET c == chars_next(state, off)
    IN  IF ~c.some THEN [n |-> 0, next |-> c.next]
        ELSE IF c.ch = QUOTE THEN [n |-> c.off, next |-> c.next]
        ELSE IF c.ch = HASH THEN raw_string_open(state, c.next)
        ELSE [n |-> -1, next |-> c.next]

\* Mutant of raw_string_closes: the run of markers after the quote has
\* exactly the length n.
raw_string_closes_exact(state, byte_offset, n) ==
    /\ starts_with(advance(state, byte_offset + 1), until(state, n))
    /\ ~starts_with(advance(state, byte_offset + 1 + n), <<HASH>>)

\* The guard of the closing arm: the input after this quote starts with
\* the first n bytes of the literal.
raw_string_closes(state, byte_offset, n) ==
    starts_with(advance(state, byte_offset + 1), until(state, n))

\* The second loop.
RECURSIVE raw_string_body(_, _, _, _)
raw_string_body(state, off, n, s) ==
    LET c == chars_next(state, off)
    IN  IF ~c.some THEN Error
        ELSE IF c.ch = QUOTE /\ raw_string_closes(state, c.off, n)
            THEN Done(advance(state, c.off + 1 + n), <<s, n>>)
        ELSE IF c.ch = CR THEN raw_string_body(state, c.next, n, s)
        ELSE raw_string_body(state, c.next, n, Append(s, c.ch))

raw_string(state) ==
    LET o == raw_string_open(state, 0)
    IN  IF o.n < 0 THEN Error
        ELSE raw_string_body(state, o.next, o.n, <<>>)

(***************************************************************************)
(* synom/src/space.rs: block_comment and whitespace.                       *)
(***************************************************************************)
\* bytes[i] == b'/' && bytes[i + 1] == b'*'
opens_at(bytes, k) == bytes[k + 1] = SLASH /\ bytes[k + 2] = STAR

\* bytes[i] == b'*' && bytes[i + 1] == b'/'
closes_at(bytes, k) == bytes[k + 1] = STAR /\ bytes[k + 2] = SLASH

\* Mutant of after_pair: the second byte of the pair is not eaten.
after_pair_overlap(k) == k + 1

\* The index after a two-byte opener or closer: `i += 1` to eat its second
\* byte, then the loop's own `i += 1`.
after_pair(k) == k + 2

\* The while loop of block_comment at index k with the depth so far.
RECURSIVE block_comment_loop(_, _, _)
block_comment_loop(state, k, depth) ==
    LET upper == Len(state) - 1
    IN  IF ~(k < upper) THEN Error
        ELSE IF opens_at(state, k)
            THEN block_comment_loop(state, after_pair(k), depth + 1)
        ELSE IF closes_at(state, k) THEN
            IF depth - 1 = 0
            THEN Done(advance(state, k + 2), until(state, k + 2))
            ELSE block_comment_loop(state, after_pair(k), depth - 1)
        ELSE block_comment_loop(state, k + 1, depth)

block_comment(state) ==
    IF ~starts_with(state, <<SLASH, STAR>>) THEN Error
    ELSE block_comment_loop(state, 0, 0)

\* is_whitespace of space.rs: White_Space and the two directional marks.
is_whitespace(ch) == char_is_whitespace(ch) \/ ch = LRM \/ ch = RLM

\* s.rest().find('\n'): the byte index of the first line feed, -1 for None.
RECURSIVE find_newline(_, _)
find_newline(s, k) ==
    IF k >= Len(s) THEN -1
    ELSE IF s[k + 1] = LF THEN k
    ELSE find_newline(s, k + 1)

\* Mutant of is_line_comment: four slashes are taken for a doc comment.
is_line_comment_no_quad(s) ==
    /\ starts_with(s, <<SLASH, SLASH>>)
    /\ ~starts_with(s, <<SLASH, SLASH, SLASH>>)
    /\ ~starts_with(s, <<SLASH, SLASH, BANG>>)

\* The test for a line comment that is not a doc comment.
is_line_comment(s) ==
    /\ starts_with(s, <<SLASH, SLASH>>)
    /\ (~starts_with(s, <<SLASH, SLASH, SLASH>>)
        \/ starts_with(s, <<SLASH, SLASH, SLASH, SLASH>>))
    /\ ~starts_with(s, <<SLASH, SLASH, BANG>>)

\* The test for a block comment that is not a doc comment.
is_block_comment(s) ==
    /\ starts_with(s, <<SLASH, STAR>>)
    /\ (~starts_with(s, <<SLASH, STAR, STAR>>)
        \/ starts_with(s, <<SLASH, STAR, STAR, STAR>>))
    /\ ~starts_with(s, <<SLASH, STAR, BANG>>)

Continue(k) == [next |-> "continue", i |-> k]

Break == [next |-> "break"]

Return(r) == [next |-> "return", result |-> r]

\* Mutant of whitespace_stop: success also when nothing was consumed.
whitespace_stop_always(state, k) == Done(advance(state, k), <<>>)

\* The return at the end of the loop body: the scan met a byte that
\* starts no trivia.
whitespace_stop(state, k) ==
    IF k > 0 THEN Done(advance(state, k), <<>>) ELSE Error

\* The second half of the loop body: the match on bytes[i].
whitespace_byte(state, k) ==
    LET b == state[k + 1]
        s == advance(state, k)
    IN  IF b = SPACE \/ b \in TAB..CR THEN Continue(k + 1)
        ELSE IF b < ASCII_LIMIT THEN Return(whitespace_stop(state, k))
        ELSE LET ch == decode_utf8(s, 0)
             IN  IF is_whitespace(ch) THEN Continue(k + len_utf8(ch))
                 ELSE Return(whitespace_stop(state, k))

\* One pass through the body of whitespace's while loop at index k.
whitespace_iter(state, k) ==
    LET s == advance(state, k)
    IN  IF state[k + 1] = SLASH /\ is_line_comment(s) THEN
            LET len == find_newline(s, 0)
            IN  IF len >= 0 THEN Continue(k + len + 1) ELSE Break
        ELSE IF state[k + 1] = SLASH /\ is_block_comment(s) THEN
            LET c == block_comment(s)
            IN  IF c.kind = "Done" THEN Continue(k + Len(c.value))
                ELSE Return(Error)
        ELSE whitespace_byte(state, k)

\* The while loop of whitespace from index k to its result.
RECURSIVE whitespace_loop(_, _)
whitespace_loop(state, k) ==
    IF ~(k < Len(state)) THEN Done(finish(state), <<>>)
    ELSE LET r == whitespace_iter(state, k)
         IN  IF r.next = "continue" THEN whitespace_loop(state, r.i)
             ELSE IF r.next = "break" THEN Done(finish(state), <<>>)
             ELSE r.result

whitespace(state) ==
    IF state = <<>> THEN Error ELSE whitespace_loop(state, 0)

skip_whitespace(state) ==
    LET r == whitespace(state)
    IN  IF r.kind = "Done" THEN r.rest ELSE state

\* Mutant of is_xid_continue: the letters below U+0100 only, without the
\* digits, the underscore, the middle dot and every code point from
\* U+0100 on.
is_latin1_letter(ch) ==
    \/ ch \in 65..90
    \/ ch \in 97..122
    \/ ch \in {170, 181, 186}
    \/ ch \in 192..214
    \/ ch \in 216..246
    \/ ch \in 248..255

\* The table of the XID_Continue property as unicode_xid 0.0.4 holds it
\* (Unicode 9.0.0): the ranges <<first, last>> of the code points that
\* have it, from U+0030 to U+E01EF.
XID_Continue_table ==
    {<<48, 57>>, <<65, 90>>, <<95, 95>>, <<97, 122>>, <<170, 170>>,
     <<181, 181>>, <<183, 183>>, <<186, 186>>, <<192, 214>>, <<216, 246>>,
     <<248, 705>>, <<710, 721>>, <<736, 740>>, <<748, 748>>, <<750, 750>>,
     <<768, 884>>, <<886, 887>>, <<891, 893>>, <<895, 895>>, <<902, 906>>,
     <<908, 908>>, <<910, 929>>, <<931, 1013>>, <<1015, 1153>>,
     <<1155, 1159>>, <<1162, 1327>>, <<1329, 1366>>, <<1369, 1369>>,
     <<1377, 1415>>, <<1425, 1469>>, <<1471, 1471>>, <<1473, 1474>>,
     <<1476, 1477>>, <<1479, 1479>>, <<1488, 1514>>, <<1520, 1522>>,
     <<1552, 1562>>, <<1568, 1641>>, <<1646, 1747>>, <<1749, 1756>>,
     <<1759, 1768>>, <<1770, 1788>>, <<1791, 1791>>, <<1808, 1866>>,
     <<1869, 1969>>, <<1984, 2037>>, <<2042, 2042>>, <<2048, 2093>>,
     <<2112, 2139>>, <<2208, 2228>>, <<2230, 2237>>, <<2260, 2273>>,
     <<2275, 2403>>, <<2406, 2415>>, <<2417, 2435>>, <<2437, 2444>>,
     <<2447, 2448>>, <<2451, 2472>>, <<2474, 2480>>, <<2482, 2482>>,
     <<2486, 2489>>, <<2492, 2500>>, <<2503, 2504>>, <<2507, 2510>>,
     <<2519, 2519>>, <<2524, 2525>>, <<2527, 2531>>, <<2534, 2545>>,
     <<2561, 2563>>, <<2565, 2570>>, <<2575, 2576>>, <<2579, 2600>>,
     <<2602, 2608>>, <<2610, 2611>>, <<2613, 2614>>, <<2616, 2617>>,
     <<2620, 2620>>, <<2622, 2626>>, <<2631, 2632>>, <<2635, 2637>>,
     <<2641, 2641>>, <<2649, 2652>>, <<2654, 2654>>, <<2662, 2677>>,
     <<2689, 2691>>, <<2693, 2701>>, <<2703, 2705>>, <<2707, 2728>>,
     <<2730, 2736>>, <<2738, 2739>>, <<2741, 2745>>, <<2748, 2757>>,
     <<2759, 2761>>, <<2763, 2765>>, <<2768, 2768>>, <<2784, 2787>>,
     <<2790, 2799>>, <<2809, 2809>>, <<2817, 2819>>, <<2821, 2828>>,
     <<2831, 2832>>, <<2835, 2856>>, <<2858, 2864>>, <<2866, 2867>>,
     <<2869, 2873>>, <<2876, 2884>>, <<2887, 2888>>, <<2891, 2893>>,
     <<2902, 2903>>, <<2908, 2909>>, <<2911, 2915>>, <<2918, 2927>>,
     <<2929, 2929>>, <<2946, 2947>>, <<2949, 2954>>, <<2958, 2960>>,
     <<2962, 2965>>, <<2969, 2970>>, <<2972, 2972>>, <<2974, 2975>>,
     <<2979, 2980>>, <<2984, 2986>>, <<2990, 3001>>, <<3006, 3010>>,
     <<3014, 3016>>, <<3018, 3021>>, <<3024, 3024>>, <<3031, 3031>>,
     <<3046, 3055>>, <<3072, 3075>>, <<3077, 3084>>, <<3086, 3088>>,
     <<3090, 3112>>, <<3114, 3129>>, <<3133, 3140>>, <<3142, 3144>>,
     <<3146, 3149>>, <<3157, 3158>>, <<3160, 3162>>, <<3168, 3171>>,
     <<3174, 3183>>, <<3200, 3203>>, <<3205, 3212>>, <<3214, 3216>>,
     <<3218, 3240>>, <<3242, 3251>>, <<3253, 3257>>, <<3260, 3268>>,
     <<3270, 3272>>, <<3274, 3277>>, <<3285, 3286>>, <<3294, 3294>>,
     <<3296, 3299>>, <<3302, 3311>>, <<3313, 3314>>, <<3329, 3331>>,
     <<3333, 3340>>, <<3342, 3344>>, <<3346, 3386>>, <<3389, 3396>>,
     <<3398, 3400>>, <<3402, 3406>>, <<3412, 3415>>, <<3423, 3427>>,
     <<3430, 3439>>, <<3450, 3455>>, <<3458, 3459>>, <<3461, 3478>>,
     <<3482, 3505>>, <<3507, 3515>>, <<3517, 3517>>, <<3520, 3526>>,
     <<3530, 3530>>, <<3535, 3540>>, <<3542, 3542>>, <<3544, 3551>>,
     <<3558, 3567>>, <<3570, 3571>>, <<3585, 3642>>, <<3648, 3662>>,
     <<3664, 3673>>, <<3713, 3714>>, <<3716, 3716>>, <<3719, 3720>>,
     <<3722, 3722>>, <<3725, 3725>>, <<3732, 3735>>, <<3737, 3743>>,
     <<3745, 3747>>, <<3749, 3749>>, <<3751, 3751>>, <<3754, 3755>>,
     <<3757, 3769>>, <<3771, 3773>>, <<3776, 3780>>, <<3782, 3782>>,
     <<3784, 3789>>, <<3792, 3801>>, <<3804, 3807>>, <<3840, 3840>>,
     <<3864, 3865>>, <<3872, 3881>>, <<3893, 3893>>, <<3895, 3895>>,
     <<3897, 3897>>, <<3902, 3911>>, <<3913, 3948>>, <<3953, 3972>>,
     <<3974, 3991>>, <<3993, 4028>>, <<4038, 4038>>, <<4096, 4169>>,
     <<4176, 4253>>, <<4256, 4293>>, <<4295, 4295>>, <<4301, 4301>>,
     <<4304, 4346>>, <<4348, 4680>>, <<4682, 4685>>, <<4688, 4694>>,
     <<4696, 4696>>, <<4698, 4701>>, <<4704, 4744>>, <<4746, 4749>>,
     <<4752, 4784>>, <<4786, 4789>>, <<4792, 4798>>, <<4800, 4800>>,
     <<4802, 4805>>, <<4808, 4822>>, <<4824, 4880>>, <<4882, 4885>>,
     <<4888, 4954>>, <<4957, 4959>>, <<4969, 4977>>, <<4992, 5007>>,
     <<5024, 5109>>, <<5112, 5117>>, <<5121, 5740>>, <<5743, 5759>>,
     <<5761, 5786>>, <<5792, 5866>>, <<5870, 5880>>, <<5888, 5900>>,
     <<5902, 5908>>, <<5920, 5940>>, <<5952, 5971>>, <<5984, 5996>>,
     <<5998, 6000>>, <<6002, 6003>>, <<6016, 6099>>, <<6103, 6103>>,
     <<6108, 6109>>, <<6112, 6121>>, <<6155, 6157>>, <<6160, 6169>>,
     <<6176, 6263>>, <<6272, 6314>>, <<6320, 6389>>, <<6400, 6430>>,
     <<6432, 6443>>, <<6448, 6459>>, <<6470, 6509>>, <<6512, 6516>>,
     <<6528, 6571>>, <<6576, 6601>>, <<6608, 6618>>, <<6656, 6683>>,
     <<6688, 6750>>, <<6752, 6780>>, <<6783, 6793>>, <<6800, 6809>>,
     <<6823, 6823>>, <<6832, 6845>>, <<6912, 6987>>, <<6992, 7001>>,
     <<7019, 7027>>, <<7040, 7155>>, <<7168, 7223>>, <<7232, 7241>>,
     <<7245, 7293>>, <<7296, 7304>>, <<7376, 7378>>, <<7380, 7414>>,
     <<7416, 7417>>, <<7424, 7669>>, <<7675, 7957>>, <<7960, 7965>>,
     <<7968, 8005>>, <<8008, 8013>>, <<8016, 8023>>, <<8025, 8025>>,
     <<8027, 8027>>, <<8029, 8029>>, <<8031, 8061>>, <<8064, 8116>>,
     <<8118, 8124>>, <<8126, 8126>>, <<8130, 8132>>, <<8134, 8140>>,
     <<8144, 8147>>, <<8150, 8155>>, <<8160, 8172>>, <<8178, 8180>>,
     <<8182, 8188>>, <<8255, 8256>>, <<8276, 8276>>, <<8305, 8305>>,
     <<8319, 8319>>, <<8336, 8348>>, <<8400, 8412>>, <<8417, 8417>>,
     <<8421, 8432>>, <<8450, 8450>>, <<8455, 8455>>, <<8458, 8467>>,
     <<8469, 8469>>, <<8472, 8477>>, <<8484, 8484>>, <<8486, 8486>>,
     <<8488, 8488>>, <<8490, 8505>>, <<8508, 8511>>, <<8517, 8521>>,
     <<8526, 8526>>, <<8544, 8584>>, <<11264, 11310>>, <<11312, 11358>>,
     <<11360, 11492>>, <<11499, 11507>>, <<11520, 11557>>, <<11559, 11559>>,
     <<11565, 11565>>, <<11568, 11623>>, <<11631, 11631>>, <<11647, 11670>>,
     <<11680, 11686>>, <<11688, 11694>>, <<11696, 11702>>, <<11704, 11710>>,
     <<11712, 11718>>, <<11720, 11726>>, <<11728, 11734>>, <<11736, 11742>>,
     <<11744, 11775>>, <<12293, 12295>>, <<12321, 12335>>, <<12337, 12341>>,
     <<12344, 12348>>, <<12353, 12438>>, <<12441, 12442>>, <<12445, 12447>>,
     <<12449, 12538>>, <<12540, 12543>>, <<12549, 12589>>, <<12593, 12686>>,
     <<12704, 12730>>, <<12784, 12799>>, <<13312, 19893>>, <<19968, 40917>>,
     <<40960, 42124>>, <<42192, 42237>>, <<42240, 42508>>, <<42512, 42539>>,
     <<42560, 42607>>, <<42612, 42621>>, <<42623, 42737>>, <<42775, 42783>>,
     <<42786, 42888>>, <<42891, 42926>>, <<42928, 42935>>, <<42999, 43047>>,
     <<43072, 43123>>, <<43136, 43205>>, <<43216, 43225>>, <<43232, 43255>>,
     <<43259, 43259>>, <<43261, 43261>>, <<43264, 43309>>, <<43312, 43347>>,
     <<43360, 43388>>, <<43392, 43456>>, <<43471, 43481>>, <<43488, 43518>>,
     <<43520, 43574>>, <<43584, 43597>>, <<43600, 43609>>, <<43616, 43638>>,
     <<43642, 43714>>, <<43739, 43741>>, <<43744, 43759>>, <<43762, 43766>>,
     <<43777, 43782>>, <<43785, 43790>>, <<43793, 43798>>, <<43808, 43814>>,
     <<43816, 43822>>, <<43824, 43866>>, <<43868, 43877>>, <<43888, 44010>>,
     <<44012, 44013>>, <<44016, 44025>>, <<44032, 55203>>, <<55216, 55238>>,
     <<55243, 55291>>, <<63744, 64109>>, <<64112, 64217>>, <<64256, 64262>>,
     <<64275, 64279>>, <<64285, 64296>>, <<64298, 64310>>, <<64312, 64316>>,
     <<64318, 64318>>, <<64320, 64321>>, <<64323, 64324>>, <<64326, 64433>>,
     <<64467, 64605>>, <<64612, 64829>>, <<64848, 64911>>, <<64914, 64967>>,
     <<65008, 65017>>, <<65024, 65039>>, <<65056, 65071>>, <<65075, 65076>>,
     <<65101, 65103>>, <<65137, 65137>>, <<65139, 65139>>, <<65143, 65143>>,
     <<65145, 65145>>, <<65147, 65147>>, <<65149, 65149>>, <<65151, 65276>>,
     <<65296, 65305>>, <<65313, 65338>>, <<65343, 65343>>, <<65345, 65370>>,
     <<65382, 65470>>, <<65474, 65479>>, <<65482, 65487>>, <<65490, 65495>>,
     <<65498, 65500>>, <<65536, 65547>>, <<65549, 65574>>, <<65576, 65594>>,
     <<65596, 65597>>, <<65599, 65613>>, <<65616, 65629>>, <<65664, 65786>>,
     <<65856, 65908>>, <<66045, 66045>>, <<66176, 66204>>, <<66208, 66256>>,
     <<66272, 66272>>, <<66304, 66335>>, <<66352, 66378>>, <<66384, 66426>>,
     <<66432, 66461>>, <<66464, 66499>>, <<66504, 66511>>, <<66513, 66517>>,
     <<66560, 66717>>, <<66720, 66729>>, <<66736, 66771>>, <<66776, 66811>>,
     <<66816, 66855>>, <<66864, 66915>>, <<67072, 67382>>, <<67392, 67413>>,
     <<67424, 67431>>, <<67584, 67589>>, <<67592, 67592>>, <<67594, 67637>>,
     <<67639, 67640>>, <<67644, 67644>>, <<67647, 67669>>, <<67680, 67702>>,
     <<67712, 67742>>, <<67808, 67826>>, <<67828, 67829>>, <<67840, 67861>>,
     <<67872, 67897>>, <<67968, 68023>>, <<68030, 68031>>, <<68096, 68099>>,
     <<68101, 68102>>, <<68108, 68115>>, <<68117, 68119>>, <<68121, 68147>>,
     <<68152, 68154>>, <<68159, 68159>>, <<68192, 68220>>, <<68224, 68252>>,
     <<68288, 68295>>, <<68297, 68326>>, <<68352, 68405>>, <<68416, 68437>>,
     <<68448, 68466>>, <<68480, 68497>>, <<68608, 68680>>, <<68736, 68786>>,
     <<68800, 68850>>, <<69632, 69702>>, <<69734, 69743>>, <<69759, 69818>>,
     <<69840, 69864>>, <<69872, 69881>>, <<69888, 69940>>, <<69942, 69951>>,
     <<69968, 70003>>, <<70006, 70006>>, <<70016, 70084>>, <<70090, 70092>>,
     <<70096, 70106>>, <<70108, 70108>>, <<70144, 70161>>, <<70163, 70199>>,
     <<70206, 70206>>, <<70272, 70278>>, <<70280, 70280>>, <<70282, 70285>>,
     <<70287, 70301>>, <<70303, 70312>>, <<70320, 70378>>, <<70384, 70393>>,
     <<70400, 70403>>, <<70405, 70412>>, <<70415, 70416>>, <<70419, 70440>>,
     <<70442, 70448>>, <<70450, 70451>>, <<70453, 70457>>, <<70460, 70468>>,
     <<70471, 70472>>, <<70475, 70477>>, <<70480, 70480>>, <<70487, 70487>>,
     <<70493, 70499>>, <<70502, 70508>>, <<70512, 70516>>, <<70656, 70730>>,
     <<70736, 70745>>, <<70784, 70853>>, <<70855, 70855>>, <<70864, 70873>>,
     <<71040, 71093>>, <<71096, 71104>>, <<71128, 71133>>, <<71168, 71232>>,
     <<71236, 71236>>, <<71248, 71257>>, <<71296, 71351>>, <<71360, 71369>>,
     <<71424, 71449>>, <<71453, 71467>>, <<71472, 71481>>, <<71840, 71913>>,
     <<71935, 71935>>, <<72384, 72440>>, <<72704, 72712>>, <<72714, 72758>>,
     <<72760, 72768>>, <<72784, 72793>>, <<72818, 72847>>, <<72850, 72871>>,
     <<72873, 72886>>, <<73728, 74649>>, <<74752, 74862>>, <<74880, 75075>>,
     <<77824, 78894>>, <<82944, 83526>>, <<92160, 92728>>, <<92736, 92766>>,
     <<92768, 92777>>, <<92880, 92909>>, <<92912, 92916>>, <<92928, 92982>>,
     <<92992, 92995>>, <<93008, 93017>>, <<93027, 93047>>, <<93053, 93071>>,
     <<93952, 94020>>, <<94032, 94078>>, <<94095, 94111>>, <<94176, 94176>>,
     <<94208, 100332>>, <<100352, 101106>>, <<110592, 110593>>,
     <<113664, 113770>>, <<113776, 113788>>, <<113792, 113800>>,
     <<113808, 113817>>, <<113821, 113822>>, <<119141, 119145>>,
     <<119149, 119154>>, <<119163, 119170>>, <<119173, 119179>>,
     <<119210, 119213>>, <<119362, 119364>>, <<119808, 119892>>,
     <<119894, 119964>>, <<119966, 119967>>, <<119970, 119970>>,
     <<119973, 119974>>, <<119977, 119980>>, <<119982, 119993>>,
     <<119995, 119995>>, <<119997, 120003>>, <<120005, 120069>>,
     <<120071, 120074>>, <<120077, 120084>>, <<120086, 120092>>,
     <<120094, 120121>>, <<120123, 120126>>, <<120128, 120132>>,
     <<120134, 120134>>, <<120138, 120144>>, <<120146, 120485>>,
     <<120488, 120512>>, <<120514, 120538>>, <<120540, 120570>>,
     <<120572, 120596>>, <<120598, 120628>>, <<120630, 120654>>,
     <<120656, 120686>>, <<120688, 120712>>, <<120714, 120744>>,
     <<120746, 120770>>, <<120772, 120779>>, <<120782, 120831>>,
     <<121344, 121398>>, <<121403, 121452>>, <<121461, 121461>>,
     <<121476, 121476>>, <<121499, 121503>>, <<121505, 121519>>,
     <<122880, 122886>>, <<122888, 122904>>, <<122907, 122913>>,
     <<122915, 122916>>, <<122918, 122922>>, <<124928, 125124>>,
     <<125136, 125142>>, <<125184, 125258>>, <<125264, 125273>>,
     <<126464, 126467>>, <<126469, 126495>>, <<126497, 126498>>,
     <<126500, 126500>>, <<126503, 126503>>, <<126505, 126514>>,
     <<126516, 126519>>, <<126521, 126521>>, <<126523, 126523>>,
     <<126530, 126530>>, <<126535, 126535>>, <<126537, 126537>>,
     <<126539, 126539>>, <<126541, 126543>>, <<126545, 126546>>,
     <<126548, 126548>>, <<126551, 126551>>, <<126553, 126553>>,
     <<126555, 126555>>, <<126557, 126557>>, <<126559, 126559>>,
     <<126561, 126562>>, <<126564, 126564>>, <<126567, 126570>>,
     <<126572, 126578>>, <<126580, 126583>>, <<126585, 126588>>,
     <<126590, 126590>>, <<126592, 126601>>, <<126603, 126619>>,
     <<126625, 126627>>, <<126629, 126633>>, <<126635, 126651>>,
     <<131072, 173782>>, <<173824, 177972>>, <<177984, 178205>>,
     <<178208, 183969>>, <<194560, 195101>>, <<917760, 917999>>}

\* UnicodeXID::is_xid_continue: ch lies in a range of the table.
is_xid_continue(ch) ==
    \E r \in XID_Continue_table : r[1] <= ch /\ ch <= r[2]

word_break(state) ==
    LET n == chars_next(state, 0)
    IN  IF n.some /\ is_xid_continue(n.ch) THEN Error ELSE Done(state, <<>>)

(***************************************************************************)
(* synom/src/helper.rs: punct and keyword.  A token is the byte sequence   *)
(* of a &'static str.                                                      *)
(***************************************************************************)
\* `match v { .. }` and `let x = v; ..`: v is evaluated once and the arms
\* F see its value.
match_on(v, F(_)) == CHOOSE y \in {F(x) : x \in {v}} : TRUE

punct(state, token) ==
    match_on(skip_whitespace(state), LAMBDA s :
        IF starts_with(s, token) THEN Done(advance(s, Len(token)), token)
        ELSE Error)

keyword(state, token) ==
    match_on(punct(state, token), LAMBDA p :
        IF p.kind = "Done"
        THEN IF word_break(p.rest).kind = "Done" THEN Done(p.rest, token)
             ELSE Error
        ELSE Error)

(***************************************************************************)
(* synom/src/helper.rs: option!, epsilon! and separated_list.  An element  *)
(* parser f is named by a string; each one is built from the matchers      *)
(* above for the element "x".                                              *)
(***************************************************************************)
\* option!: r is the result of the inner parser on state.  An Option of
\* a text is a tag followed by the text: Some(o) is 1 and then o, None is
\* 0 alone.
option(state, r) ==
    IF r.kind = "Done" THEN Done(r.rest, <<1>> \o r.value)
    ELSE Done(state, <<0>>)

epsilon(state) == Done(state, <<>>)

\* "x".
ELEMENT == <<LOWER_X>>

\* The call f(state) of separated_list for the element parser named f.
call(f, state) ==
    IF f = "punct" THEN punct(state, ELEMENT)
    ELSE IF f = "keyword" THEN keyword(state, ELEMENT)
    ELSE IF f = "option" THEN option(state, punct(state, ELEMENT))
    ELSE epsilon(state)

\* Mutant of made_progress: every success counts as progress.
made_progress_always(before, after) == TRUE

\* The negation of the test `i.len() == input.len()`: the parser that
\* went from `before` to `after` consumed something.
made_progress(before, after) == state_len(after) # state_len(before)

\* The first element: None when f fails, else the result of the match on
\* the progress it made.
separated_list_first(state, f) ==
    match_on(call(f, state), LAMBDA e :
        IF e.kind = "Error" THEN Return(Done(state, <<>>))
        ELSE IF ~made_progress(state, e.rest) THEN Return(Error)
        ELSE [next |-> "continue", input |-> e.rest, o |-> e.value])

\* One test of the while-let condition at cursor `state` and, if it holds,
\* one pass of the body: the separator, then the element.
separated_list_iter(state, sep, f) ==
    match_on(punct(state, sep), LAMBDA p :
        IF p.kind # "Done" THEN Break
        ELSE IF ~made_progress(state, p.rest) THEN Break
        ELSE match_on(call(f, p.rest), LAMBDA e :
                 IF e.kind # "Done" THEN Break
                 ELSE IF ~made_progress(p.rest, e.rest) THEN Break
                 ELSE [next |-> "continue", input |-> e.rest, o |-> e.value]))

\* Mutant of trailing_separator: the flag is not consulted.
trailing_separator_always(state, sep, terminated) ==
    match_on(punct(state, sep), LAMBDA p :
        IF p.kind = "Done" THEN p.rest ELSE state)

\* After the loop: a terminated list takes one more separator if it is
\* there.
trailing_separator(state, sep, terminated) ==
    match_on(punct(state, sep), LAMBDA p :
        IF terminated /\ p.kind = "Done" THEN p.rest ELSE state)

\* The end of separated_list once the loop has ended at cursor `state`.
separated_list_end(state, sep, terminated, list) ==
    Done(trailing_separator(state, sep, terminated), list)

\* The while loop of separated_list from cursor `state` to the result.
RECURSIVE separated_list_loop(_, _, _, _, _)
separated_list_loop(state, sep, f, terminated, list) ==
    match_on(separated_list_iter(state, sep, f), LAMBDA r :
        IF r.next = "continue"
        THEN separated_list_loop(r.input, sep, f, terminated, Append(list, r.o))
        ELSE separated_list_end(state, sep, terminated, list))

separated_list(state, sep, f, terminated) ==
    match_on(separated_list_first(state, f), LAMBDA r :
        IF r.next = "return" THEN r.result
        ELSE separated_list_loop(r.input, sep, f, terminated, <<r.o>>))

(***************************************************************************)
(* Inputs.  Each family is every character sequence up to a bound over an  *)
(* alphabet that holds the characters its decoder tells apart.             *)
(***************************************************************************)
SeqsUpTo(S, n) == UNION {[1..k -> S] : k \in 0..n}

\* The quote, the backslash, CR, LF, the space, a, and U+00A0 (whitespace
\* outside ASCII).
EscapeAlphabet == {QUOTE, BACKSLASH, CR, LF, SPACE, LOWER_A, 160}

\* The apostrophe, the backslash, a, n, and U+00E9 (a letter outside ASCII).
CharAlphabet == {APOSTROPHE, BACKSLASH, LOWER_A, LOWER_N, 233}

\* The input of test_cooked_string.
TestCookedString ==
    <<92, 120, 54, 50, 32, 92, 10, 32, 92, 117, 123, 55, 125, 32,
      92, 117, 123, 54, 52, 125, 32, 92, 117, 123, 98, 102, 53, 125, 32,
      92, 117, 123, 49, 50, 98, 97, 125, 32,
      92, 117, 123, 49, 70, 51, 57, 53, 125, 32,
      92, 117, 123, 49, 48, 50, 51, 52, 53, 125, 34>>

\* The input of test_cooked_byte_string.
TestCookedByteString ==
    <<92, 120, 54, 50, 32, 92, 10, 32, 92, 120, 69, 70, 34>>

EscapeInputs ==
    SeqsUpTo(EscapeAlphabet, MaxLen) \cup SeqsUpTo(CharAlphabet, MaxCharLen)
        \cup {TestCookedString, TestCookedByteString}

\* 0, 7, 8, F, a, and g (no hex digit).
XDigits == {DIGIT0, DIGIT7, 56, UPPER_F, LOWER_A, 103}

\* 0, 1, D, f.
UDigits == {DIGIT0, 49, 68, LOWER_F}

XTails == {<<>>, <<QUOTE>>}

UTails == {<<>>, <<RBRACE>>, <<RBRACE, QUOTE>>, <<103, RBRACE, QUOTE>>}

NumericInputs ==
    {<<BACKSLASH, LOWER_X>> \o d \o t :
        d \in SeqsUpTo(XDigits, MaxXLen), t \in XTails}
    \cup {<<BACKSLASH, LOWER_U, LBRACE>> \o d \o t :
        d \in SeqsUpTo(UDigits, MaxDigits), t \in UTails}
    \cup {<<BACKSLASH, LOWER_U>> \o d \o t :
        d \in SeqsUpTo(UDigits, 1), t \in UTails}

\* The slash, the star, the bang, the space, LF, and U+200E.
TriviaAlphabet == {SLASH, STAR, BANG, SPACE, LF, LRM}

\* The slash, the star, and x.
CommentAlphabet == {SLASH, STAR, LOWER_X}

\* A nested comment, a comment followed by a stray closer, and a doc
\* comment, written with spaces and letters.
TriviaExamples ==
    {<<47, 42, 32, 47, 42, 32, 42, 47, 32, 42, 47>>,
     <<47, 42, 32, 42, 47, 32, 42, 47>>,
     <<47, 47, 33, 120>>}

TriviaInputs ==
    SeqsUpTo(TriviaAlphabet, MaxTrivia) \cup SeqsUpTo(CommentAlphabet, MaxComment)
        \cup TriviaExamples

\* The hash, the quote, a, and CR.
RawAlphabet == {HASH, QUOTE, LOWER_A, CR}

\* A raw string with two markers and a quote and one marker inside.
RawExample ==
    <<35, 35, 34, 104, 101, 108, 108, 111, 32, 34, 35, 32,
      119, 111, 114, 108, 100, 34, 35, 35>>

RawInputs == SeqsUpTo(RawAlphabet, MaxRaw) \cup {RawExample}

\* a, b, the digit 9, the underscore, the semicolon, the space, U+00E9 (a
\* letter), U+00B7 (the middle dot, which continues an identifier),
\* U+00A0 (whitespace outside ASCII), U+03B1 (a Greek letter), U+0300 (a
\* combining mark, which continues an identifier) and U+200E (trivia
\* that continues none).
WordAlphabet ==
    {LOWER_A, LOWER_B, DIGIT9, 95, SEMICOLON, SPACE, 233, 183, 160,
     945, 768, LRM}

\* "bang".
BANG_KEYWORD == <<LOWER_B, LOWER_A, LOWER_N, 103>>

\* The inputs of the keyword! doc test, "bang bang bang;" and "bangbang;",
\* and a keyword after a comment and before a comment, "/*x*/ab/**/".
WordExamples ==
    {BANG_KEYWORD \o <<SPACE>> \o BANG_KEYWORD \o <<SPACE>> \o BANG_KEYWORD
        \o <<SEMICOLON>>,
     BANG_KEYWORD \o BANG_KEYWORD \o <<SEMICOLON>>,
     <<SLASH, STAR, LOWER_X, STAR, SLASH, LOWER_A, LOWER_B,
       SLASH, STAR, STAR, SLASH>>}

WordInputs == SeqsUpTo(WordAlphabet, MaxWord) \cup WordExamples

\* "a", "ab", "bang".
Tokens == {<<LOWER_A>>, <<LOWER_A, LOWER_B>>, BANG_KEYWORD}

\* x (the element), the comma (the separator), the space, and a (which
\* is no element and continues an identifier).
ListAlphabet == {LOWER_X, COMMA, SPACE, LOWER_A}

\* Three elements with a trailing separator, "x, x, x,", and the same
\* with comments for spaces, "x,/**/x/**/,".
ListExamples ==
    {<<LOWER_X, COMMA, SPACE, LOWER_X, COMMA, SPACE, LOWER_X, COMMA>>,
     <<LOWER_X, COMMA, SLASH, STAR, STAR, SLASH, LOWER_X,
       SLASH, STAR, STAR, SLASH, COMMA>>}

ListInputs == SeqsUpTo(ListAlphabet, MaxList) \cup ListExamples

\* The comma, and the empty separator (a punct that can succeed without
\* consuming anything).
Separators == {<<COMMA>>, <<>>}

ElementParsers == {"punct", "keyword", "option", "epsilon"}

(***************************************************************************)
(* The state machine: a caller holds an input and calls one function on    *)
(* it.  whitespace is followed one loop iteration at a time, with i its    *)
(* index; the other functions are applied whole.                           *)
(***************************************************************************)
NoResult == [kind |-> "None"]

\* The arguments of a call besides its input: the token of punct and
\* keyword; the separator, the element parser and the flag of
\* separated_list.
NoArgs == [token |-> <<>>, sep |-> <<>>, f |-> "none", terminated |-> FALSE]

Start(inputs) ==
    /\ input \in {as_bytes(cs) : cs \in inputs}
    /\ pc = "ready"
    /\ op = "none"
    /\ result = NoResult
    /\ i = 0
    /\ args = NoArgs
    /\ res = <<>>

\* The call returns r to the caller.
Returns(name, r) ==
    /\ pc' = "done"
    /\ op' = name
    /\ result' = r
    /\ UNCHANGED <<input, i, args, res>>

CookedString ==
    /\ pc = "ready"
    /\ Returns("cooked_string", cooked_string(input))

CookedByteString ==
    /\ pc = "ready"
    /\ Returns("cooked_byte_string", cooked_byte_string(input))

CookedChar ==
    /\ pc = "ready"
    /\ Returns("cooked_char", cooked_char(input))

CookedByte ==
    /\ pc = "ready"
    /\ Returns("cooked_byte", cooked_byte(input))

RawString ==
    /\ pc = "ready"
    /\ Returns("raw_string", raw_string(input))

BlockComment ==
    /\ pc = "ready"
    /\ Returns("block_comment", block_comment(input))

\* whitespace up to its loop: the empty input is refused.
WhitespaceEnter ==
    /\ pc = "ready"
    /\ op' = "whitespace"
    /\ i' = 0
    /\ IF input = <<>>
       THEN pc' = "done" /\ result' = Error
       ELSE pc' = "whitespace" /\ result' = result
    /\ UNCHANGED <<input, args, res>>

\* One test of the loop condition and, if it holds, one pass of the body.
WhitespaceStep ==
    /\ pc = "whitespace"
    /\ LET r == IF i < Len(input) THEN whitespace_iter(input, i) ELSE Break
       IN  IF r.next = "continue"
           THEN pc' = "whitespace" /\ i' = r.i /\ result' = result
           ELSE /\ pc' = "done"
                /\ i' = i
                /\ result' = IF r.next = "break"
                             THEN Done(finish(input), <<>>)
                             ELSE r.result
    /\ UNCHANGED <<input, op, args, res>>

\* The call of a function that takes a token returns r to the caller.
ReturnsFor(name, token, r) ==
    /\ pc' = "done"
    /\ op' = name
    /\ result' = r
    /\ args' = [args EXCEPT !.token = token]
    /\ UNCHANGED <<input, i, res>>

WordBreak ==
    /\ pc = "ready"
    /\ Returns("word_break", word_break(input))

Punct ==
    /\ pc = "ready"
    /\ \E token \in Tokens : ReturnsFor("punct", token, punct(input, token))

Keyword ==
    /\ pc = "ready"
    /\ \E token \in Tokens : ReturnsFor("keyword", token, keyword(input, token))

InitEscape == Start(EscapeInputs)

NextEscape == CookedString \/ CookedByteString \/ CookedChar \/ CookedByte

SpecEscape == InitEscape /\ [][NextEscape]_vars

InitNumeric == Start(NumericInputs)

SpecNumeric == InitNumeric /\ [][NextEscape]_vars

InitTrivia == Start(TriviaInputs)

NextTrivia == BlockComment \/ WhitespaceEnter \/ WhitespaceStep

SpecTrivia == InitTrivia /\ [][NextTrivia]_vars

InitRaw == Start(RawInputs)

NextRaw == RawString

SpecRaw == InitRaw /\ [][NextRaw]_vars

\* The offset in the caller's input of a cursor that is a suffix of it.
offset_of(state) == Len(input) - Len(state)

\* separated_list up to its loop: the arguments are bound and the first
\* element is parsed.  The local `input` of separated_list is held as its
\* offset i in the caller's input.
SeparatedListEnter ==
    /\ pc = "ready"
    /\ \E sep \in Separators, f \in ElementParsers, terminated \in BOOLEAN :
          /\ args' = [args EXCEPT !.sep = sep, !.f = f,
                                   !.terminated = terminated]
          /\ \E r \in {separated_list_first(input, f)} :
                 IF r.next = "return"
                 THEN /\ pc' = "done"
                      /\ result' = r.result
                      /\ UNCHANGED <<i, res>>
                 ELSE /\ pc' = "separated_list"
                      /\ result' = result
                      /\ i' = offset_of(r.input)
                      /\ res' = <<r.o>>
    /\ op' = "separated_list"
    /\ UNCHANGED input

\* One test of the loop condition and, if it holds, one pass of the body;
\* when the loop ends, the trailing separator and the return.
SeparatedListStep ==
    /\ pc = "separated_list"
    /\ \E cursor \in {advance(input, i)} :
       \E r \in {separated_list_iter(cursor, args.sep, args.f)} :
           IF r.next = "continue"
           THEN /\ pc' = "separated_list"
                /\ i' = offset_of(r.input)
                /\ res' = Append(res, r.o)
                /\ result' = result
           ELSE /\ pc' = "done"
                /\ result' = separated_list_end(cursor, args.sep,
                                                 args.terminated, res)
                /\ UNCHANGED <<i, res>>
    /\ UNCHANGED <<input, op, args>>

InitWord == Start(WordInputs)

NextWord == WordBreak \/ Punct \/ Keyword

SpecWord == InitWord /\ [][NextWord]_vars

InitList == Start(ListInputs)

NextList == SeparatedListEnter \/ SeparatedListStep

SpecList == InitList /\ [][NextList]_vars

\* The loop of separated_list runs on: a call that has started takes its
\* next step.
SpecListFair == SpecList /\ WF_vars(NextList)

Init ==
    InitEscape \/ InitNumeric \/ InitTrivia \/ InitRaw \/ InitWord \/ InitList

Next == NextEscape \/ NextTrivia \/ NextRaw \/ NextWord \/ NextList

Spec == Init /\ [][Next]_vars

(***************************************************************************)
(* Properties.                                                             *)
(***************************************************************************)
Returned(name) == pc = "done" /\ op = name

\* The function the caller ran, as a function of an input.
Decode(name, s) ==
    IF name = "cooked_string" THEN cooked_string(s)
    ELSE IF name = "cooked_byte_string" THEN cooked_byte_string(s)
    ELSE IF name = "cooked_char" THEN cooked_char(s)
    ELSE cooked_byte(s)

\* How many bytes of the input lie before the returned cursor.
Consumed == Len(input) - Len(result.rest)

TextDecoders == {"cooked_string", "cooked_byte_string"}

SingleDecoders == {"cooked_char", "cooked_byte"}

\* C1 as stated: when cooked_string or cooked_byte_string succeeds, the
\* closing quote is consumed: the last byte before the returned cursor is
\* that quote.
C1_CursorPastClosingQuote ==
    (pc = "done" /\ op \in TextDecoders /\ result.kind = "Done") =>
        /\ result.rest = advance(input, Consumed)
        /\ Consumed >= 1
        /\ input[Consumed] = QUOTE

\* C1 amended: when cooked_string or cooked_byte_string succeeds, the
\* returned cursor is positioned at the closing quote that ended the scan:
\* the remaining input starts with that quote, the text before it holds no
\* closing quote (decoding it alone fails), and the text up to and
\* including it decodes to the same value.
C1_CursorAtClosingQuote ==
    (pc = "done" /\ op \in TextDecoders /\ result.kind = "Done") =>
        /\ result.rest = advance(input, Consumed)
        /\ result.rest # <<>>
        /\ Head(result.rest) = QUOTE
        /\ Decode(op, until(input, Consumed)) = Error
        /\ Decode(op, until(input, Consumed + 1))
               = Done(<<QUOTE>>, result.value)
        /\ input = TestCookedByteString => result.rest = <<QUOTE>>
        /\ input = TestCookedString => result.rest = <<QUOTE>>

\* C1 witness: a successful decode of a text that holds a line
\* continuation, with input left after the closing quote.
C1_Witness ==
    /\ pc = "done"
    /\ op \in TextDecoders
    /\ result.kind = "Done"
    /\ result.value # <<>>
    /\ Len(result.rest) >= 2
    /\ \E k \in 1..Consumed : input[k] = BACKSLASH

C2_IsHex(c) == c \in (48..57) \cup (65..70) \cup (97..102)

C2_HexValue(c) == IF c <= 57 THEN c - 48 ELSE IF c >= 97 THEN c - 87 ELSE c - 55

\* The number a digit string writes, most significant digit first.
RECURSIVE C2_Value(_)
C2_Value(ds) ==
    IF ds = <<>> THEN 0
    ELSE C2_HexValue(Head(ds)) * 16 ^ (Len(ds) - 1) + C2_Value(Tail(ds))

\* The length of the run of hex digits that starts at s[k].
RECURSIVE C2_RunLen(_, _)
C2_RunLen(s, k) ==
    IF k <= Len(s) /\ C2_IsHex(s[k]) THEN 1 + C2_RunLen(s, k + 1) ELSE 0

C2_IsScalar(v) == v \in 0..55295 \/ v \in 57344..1114111

C2_NoEscape == [ok |-> FALSE, val |-> 0, len |-> 0]

\* What the numeric escape at the start of s stands for, in a text or
\* character literal (text) or in a byte literal: its value and its length.
C2_Escape(s, text) ==
    IF Len(s) >= 2 /\ s[1] = BACKSLASH /\ s[2] = LOWER_X THEN
        IF /\ Len(s) >= 4
           /\ C2_IsHex(s[3])
           /\ C2_IsHex(s[4])
           /\ (text => s[3] \in 48..55)
        THEN [ok |-> TRUE, val |-> C2_Value(SubSeq(s, 3, 4)), len |-> 4]
        ELSE C2_NoEscape
    ELSE IF /\ text
            /\ Len(s) >= 3
            /\ s[1] = BACKSLASH
            /\ s[2] = LOWER_U
            /\ s[3] = LBRACE
    THEN
        LET k == C2_RunLen(s, 4)
        IN  IF /\ k \in 1..6
               /\ Len(s) >= 4 + k
               /\ s[4 + k] = RBRACE
               /\ C2_IsScalar(C2_Value(SubSeq(s, 4, 3 + k)))
            THEN [ok |-> TRUE, val |-> C2_Value(SubSeq(s, 4, 3 + k)),
                  len |-> 4 + k]
            ELSE C2_NoEscape
    ELSE C2_NoEscape

\* The result of the decoder `name` on an input that starts with a numeric
\* escape: the single-value decoders stop after the escape, the text
\* decoders go on with what follows it.
C2_Expected(name, s) ==
    LET e == C2_Escape(s, name \in {"cooked_string", "cooked_char"})
        after == advance(s, e.len)
    IN  IF ~e.ok THEN Error
        ELSE IF name \in SingleDecoders THEN Done(after, e.val)
        ELSE LET t == Decode(name, after)
             IN  IF t.kind = "Done"
                 THEN Done(t.rest, <<e.val>> \o t.value)
                 ELSE Error

\* C2: a numeric escape decodes to exactly the written value or the decode
\* fails: \xHH needs a first digit 0-7 in text and character literals and
\* any two hex digits in byte literals; \u{...} (text and character only)
\* needs 1 to 6 hex digits, a closing brace and a Unicode scalar value.
C2_NumericEscapes ==
    (pc = "done" /\ op \in TextDecoders \cup SingleDecoders) =>
        result = C2_Expected(op, input)

\* C2 witness: the six-digit escape of the largest scalar value, U+10FFFF,
\* decoded by cooked_string.
C2_Witness ==
    /\ Returned("cooked_string")
    /\ result.kind = "Done"
    /\ result.value = <<1114111>>

\* C3 as stated: cooked_char and cooked_byte succeed only if the decoded
\* value is followed by the closing apostrophe or by the end of the input.
C3_DelimiterEnforced ==
    (pc = "done" /\ op \in SingleDecoders /\ result.kind = "Done") =>
        (result.rest = <<>> \/ Head(result.rest) = APOSTROPHE)

\* A prefix of the input that decodes to one value with nothing left.
C3_OneValue(k) ==
    /\ is_char_boundary(input, k)
    /\ Decode(op, until(input, k)).kind = "Done"
    /\ Decode(op, until(input, k)).rest = <<>>

\* C3 amended: cooked_char and cooked_byte decode exactly one value and do
\* not look at what follows it: the call succeeds exactly when some prefix
\* of the input is one value, and the cursor is then left right after that
\* prefix, at the following unit (any unit) or at the end of the input.
C3_StopsAfterOneValue ==
    (pc = "done" /\ op \in SingleDecoders) =>
        /\ result.kind = "Done" <=> \E k \in 1..Len(input) : C3_OneValue(k)
        /\ result.kind = "Done" =>
              /\ Consumed >= 1
              /\ result.rest = advance(input, Consumed)
              /\ Decode(op, until(input, Consumed)) = Done(<<>>, result.value)

\* C3 witness: a successful cooked_char call whose cursor is left at a
\* unit that is no apostrophe.
C3_Witness ==
    /\ Returned("cooked_char")
    /\ result.kind = "Done"
    /\ result.rest # <<>>
    /\ Head(result.rest) # APOSTROPHE

\* The openers and closers of s from byte offset k on, left to right and
\* not overlapping: +1 for an opener, -1 for a closer, each with the
\* offset just past it.
RECURSIVE C4_Tokens(_, _)
C4_Tokens(s, k) ==
    IF k + 2 > Len(s) THEN <<>>
    ELSE IF SubSeq(s, k + 1, k + 2) = <<SLASH, STAR>>
        THEN <<[d |-> 1, end |-> k + 2]>> \o C4_Tokens(s, k + 2)
    ELSE IF SubSeq(s, k + 1, k + 2) = <<STAR, SLASH>>
        THEN <<[d |-> -1, end |-> k + 2]>> \o C4_Tokens(s, k + 2)
    ELSE C4_Tokens(s, k + 1)

\* Openers minus closers among the first n tokens.
RECURSIVE C4_Depth(_, _)
C4_Depth(toks, n) == IF n = 0 THEN 0 ELSE C4_Depth(toks, n - 1) + toks[n].d

\* The tokens at which the depth is zero.
C4_Balanced(toks) == {n \in 1..Len(toks) : C4_Depth(toks, n) = 0}

\* The first offset of s at which the depth is back to zero, -1 if none.
C4_End(s) ==
    LET toks == C4_Tokens(s, 0)
        zero == C4_Balanced(toks)
    IN  IF zero = {} THEN -1
        ELSE toks[CHOOSE n \in zero : \A m \in zero : n <= m].end

\* The depth is positive before the comment's end.
C4_DepthPositive(s) ==
    LET toks == C4_Tokens(s, 0)
    IN  \A n \in 1..Len(toks) :
            (\A m \in 1..n : C4_Depth(toks, m) # 0) => C4_Depth(toks, n) > 0

C5_Starts(s, pat) == Len(s) >= Len(pat) /\ SubSeq(s, 1, Len(pat)) = pat

\* A doc comment starts s: exactly three slashes, //!, /** without a third
\* star, or /*!.
C5_IsDoc(s) ==
    \/ C5_Starts(s, <<47, 47, 47>>) /\ ~C5_Starts(s, <<47, 47, 47, 47>>)
    \/ C5_Starts(s, <<47, 47, 33>>)
    \/ C5_Starts(s, <<47, 42, 42>>) /\ ~C5_Starts(s, <<47, 42, 42, 42>>)
    \/ C5_Starts(s, <<47, 42, 33>>)

C5_LineSkippable(s) == C5_Starts(s, <<47, 47>>) /\ ~C5_IsDoc(s)

C5_BlockSkippable(s) == C5_Starts(s, <<47, 42>>) /\ ~C5_IsDoc(s)

\* The 1-based places of the line feeds of s.
C5_LineFeeds(s) == {k \in 1..Len(s) : s[k] = 10}

C5_FirstLineFeed(s) ==
    CHOOSE k \in C5_LineFeeds(s) : \A m \in C5_LineFeeds(s) : k <= m

\* The scan of whitespace is about to look at the input from offset i.
ScanningAt(s) == pc = "whitespace" /\ i < Len(input) /\ s = advance(input, i)

\* C4, block_comment: on an input that starts with /*, block_comment
\* succeeds at exactly the first offset where openers minus closers,
\* counted left to right without overlap, is back to zero (the depth is
\* positive until then), and fails if there is no such offset.
C4_BlockCommentByDepth ==
    (Returned("block_comment") /\ C5_Starts(input, <<47, 42>>)) =>
        /\ C4_DepthPositive(input)
        /\ input = <<47, 42, 32, 47, 42, 32, 42, 47, 32, 42, 47>> =>
              result.kind = "Done" /\ result.rest = <<>>
        /\ input = <<47, 42, 32, 42, 47, 32, 42, 47>> =>
              result.kind = "Done" /\ result.rest = <<32, 42, 47>>
        /\ result = IF C4_End(input) >= 0
                    THEN Done(advance(input, C4_End(input)),
                              until(input, C4_End(input)))
                    ELSE Error

\* C4, whitespace: when the scan reaches a block comment (no doc comment)
\* whose depth never returns to zero, the whole call fails, whatever was
\* skipped before it.
C4_UnterminatedFails ==
    (ScanningAt(advance(input, i))
        /\ C5_BlockSkippable(advance(input, i))
        /\ C4_End(advance(input, i)) < 0)
    => (pc' = "done" /\ result' = Error)

\* C4: block comments are matched by depth counting, and an unterminated
\* one makes the whole whitespace call fail.
C4_DepthCounting == []C4_BlockCommentByDepth /\ [][C4_UnterminatedFails]_vars

\* C4 witness: whitespace fails at an unterminated block comment that
\* follows a complete one, which was skipped.
C4_Witness ==
    /\ Returned("whitespace")
    /\ result = Error
    /\ i = 5
    /\ until(input, 5) = <<47, 42, 120, 42, 47>>
    /\ C5_BlockSkippable(advance(input, i))

\* C5, the examples: three slashes and //! are not consumed (the call
\* fails), four slashes and /*** are consumed whole.
C5_Examples ==
    Returned("whitespace") =>
        /\ input = <<47, 47, 47, 120>> => result = Error
        /\ input = <<47, 47, 33, 120>> => result = Error
        /\ input = <<47, 47, 47, 47, 120>> => result = Done(<<>>, <<>>)
        /\ input = <<47, 42, 42, 42, 120, 42, 47>> => result = Done(<<>>, <<>>)

\* C5, one step of the scan at offset i: a doc comment stops the scan
\* there (a failure if nothing was consumed); any other // is skipped
\* through the next line feed or to the end of the input; any other /*
\* that is closed is skipped to its end.
C5_Step ==
    ScanningAt(advance(input, i)) =>
        LET s == advance(input, i)
        IN  /\ C5_IsDoc(s) =>
                  /\ pc' = "done"
                  /\ i' = i
                  /\ result' = IF i > 0 THEN Done(s, <<>>) ELSE Error
            /\ (C5_LineSkippable(s) /\ C5_LineFeeds(s) # {}) =>
                  /\ pc' = "whitespace"
                  /\ i' = i + C5_FirstLineFeed(s)
            /\ (C5_LineSkippable(s) /\ C5_LineFeeds(s) = {}) =>
                  /\ pc' = "done"
                  /\ result' = Done(<<>>, <<>>)
            /\ (C5_BlockSkippable(s) /\ C4_End(s) >= 0) =>
                  /\ pc' = "whitespace"
                  /\ i' = i + C4_End(s)

\* C5: whitespace never consumes a doc comment, and skips every other
\* line or block comment.
C5_DocCommentsKept == []C5_Examples /\ [][C5_Step]_vars

\* C5 witness: the scan skipped a block comment and stopped at the doc
\* comment that follows it.
C5_Witness ==
    /\ Returned("whitespace")
    /\ i = 5
    /\ until(input, 5) = <<47, 42, 120, 42, 47>>
    /\ result.kind = "Done"
    /\ C5_IsDoc(result.rest)

\* s starts with whitespace or with a comment that whitespace skips.
C10_TriviaStart(s) ==
    /\ s # <<>>
    /\ \/ is_whitespace(decode_utf8(s, 0))
       \/ C5_LineSkippable(s)
       \/ C5_BlockSkippable(s)

\* C10: whitespace fails when nothing would be consumed (the empty input
\* included); a success returns a cursor strictly shorter than the input,
\* at the end of the input or at a unit that starts neither whitespace nor
\* a skippable comment; whitespace called again on it fails.
C10_MaximalNonEmptyPrefix ==
    Returned("whitespace") =>
        /\ ~C10_TriviaStart(input) => result = Error
        /\ result.kind = "Done" =>
              /\ Len(result.rest) < Len(input)
              /\ result.rest = advance(input, Consumed)
              /\ ~C10_TriviaStart(result.rest)
              /\ whitespace(result.rest) = Error

\* C10 witness: a successful call that consumed whitespace and a comment
\* and left input behind.
C10_Witness ==
    /\ Returned("whitespace")
    /\ result.kind = "Done"
    /\ result.rest # <<>>
    /\ \E k \in 1..Consumed : input[k] = SLASH
    /\ \E k \in 1..Consumed : input[k] = SPACE

\* The length of the run of '#' that starts at s[k].
RECURSIVE C6_Run(_, _)
C6_Run(s, k) == IF k <= Len(s) /\ s[k] = 35 THEN 1 + C6_Run(s, k + 1) ELSE 0

\* The quotes after the opening quote (at n + 1) that close a raw string
\* with n markers: followed by a run of exactly n markers (exact), or by
\* at least n markers.
C6_Closers(s, n, exact) ==
    {q \in (n + 2)..Len(s) :
        /\ s[q] = 34
        /\ IF exact THEN C6_Run(s, q + 1) = n ELSE C6_Run(s, q + 1) >= n}

\* What raw_string returns on s if the first closer, left to right, ends
\* the literal: the units between the quotes without carriage returns,
\* the marker count, and the cursor past n markers after the closer.
C6_Expected(s, exact) ==
    LET n == C6_Run(s, 1)
        closers == C6_Closers(s, n, exact)
        q == CHOOSE c \in closers : \A d \in closers : c <= d
    IN  IF Len(s) < n + 1 \/ s[n + 1] # 34 \/ closers = {} THEN Error
        ELSE Done(advance(s, q + n),
                  <<SelectSeq(SubSeq(s, n + 2, q - 1), LAMBDA c : c # 13), n>>)

\* C6 as stated: raw_string ends at the first quote that is followed by a
\* run of exactly n markers, and fails if there is none.
C6_ExactMarkerRun ==
    Returned("raw_string") => result = C6_Expected(input, TRUE)

\* C6 amended: raw_string ends at the first quote that is followed by at
\* least n markers (a prefix test); it returns the units between the
\* quotes without carriage returns, and n, with the cursor just past the
\* first n markers after that quote; a quote followed by fewer than n
\* markers is content; an opening run interrupted by another unit, or no
\* such closing quote, is a failure.
C6_AtLeastMarkerRun ==
    Returned("raw_string") =>
        /\ result = C6_Expected(input, FALSE)
        /\ input = RawExample =>
              result = Done(<<>>, <<<<104, 101, 108, 108, 111, 32, 34, 35, 32,
                                      119, 111, 114, 108, 100>>, 2>>)

\* C6 witness: a raw string with two markers whose content holds a quote
\* followed by one marker.
C6_Witness ==
    /\ Returned("raw_string")
    /\ result.kind = "Done"
    /\ result.value = <<<<34, 35>>, 2>>

\* The characters of a UTF-8 text from byte offset off on.
RECURSIVE C7_Chars(_, _)
C7_Chars(s, off) ==
    IF off >= Len(s) THEN <<>>
    ELSE <<decode_utf8(s, off)>> \o C7_Chars(s, off + utf8_width(s[off + 1]))

C7_NoBackslash(s) == \A k \in 1..Len(s) : s[k] # 92

\* The text before the first quote of s (all of s if it has none).
C7_Body(s) ==
    LET quotes == {k \in 1..Len(s) : s[k] = 34}
    IN  IF quotes = {} THEN s
        ELSE until(s, (CHOOSE q \in quotes : \A r \in quotes : q <= r) - 1)

\* A carriage return of the body that is not followed by a line feed.
C7_LoneCR(s) ==
    \E k \in 1..Len(C7_Body(s)) :
        s[k] = 13 /\ (k = Len(s) \/ s[k + 1] # 10)

\* The units of the body as the decoder counts them: characters for
\* cooked_string, bytes for cooked_byte_string.
C7_Units(name, s) ==
    IF name = "cooked_string" THEN C7_Chars(C7_Body(s), 0) ELSE C7_Body(s)

\* C7 without escapes: in a text without backslashes (every carriage
\* return is unescaped), a carriage return that is not followed by a line
\* feed makes the decode fail, and a successful decode yields the body
\* with each CR LF pair turned into one line feed (the body without its
\* carriage returns).
C7_Plain ==
    (pc = "done" /\ op \in TextDecoders /\ C7_NoBackslash(input)) =>
        /\ C7_LoneCR(input) => result = Error
        /\ result.kind = "Done" =>
              result.value = SelectSeq(C7_Units(op, input), LAMBDA c : c # 13)

\* The scan of `name` meets the unit at offset k as a unit of its own,
\* outside any escape: the text before it is decoded to its end, and a
\* space put at k is copied into the value.
C7_ScanReaches(name, k) ==
    LET a == Decode(name, until(input, k) \o <<34>>)
        b == Decode(name, until(input, k) \o <<32, 34>>)
    IN  /\ a.kind = "Done"
        /\ a.rest = <<34>>
        /\ b.kind = "Done"
        /\ b.rest = <<34>>
        /\ b.value = Append(a.value, 32)

C7_UnescapedCRs(name) ==
    {k \in 0..(Len(input) - 1) : input[k + 1] = 13 /\ C7_ScanReaches(name, k)}

\* C7 in any text: an unescaped carriage return followed by a line feed
\* adds exactly one line feed to the value, the decode going on as if the
\* line feed stood alone; followed by anything else, or by the end of the
\* input, it makes the decode fail.
C7_Anywhere ==
    (pc = "done" /\ op \in TextDecoders) =>
        \A k \in C7_UnescapedCRs(op) :
            IF k + 2 <= Len(input) /\ input[k + 2] = 10
            THEN /\ result = Decode(op, until(input, k) \o advance(input, k + 1))
                 /\ Decode(op, until(input, k) \o <<13, 10, 34>>).value
                        = Append(Decode(op, until(input, k) \o <<34>>).value, 10)
            ELSE result = Error

\* C7: an unescaped CR LF pair contributes exactly one line feed, and an
\* unescaped carriage return followed by anything else makes the decode
\* fail.
C7_CarriageReturns == C7_Plain /\ C7_Anywhere

\* C7 witness: a successful decode of a text that holds an escape and,
\* after it, an unescaped CR LF pair.
C7_Witness ==
    /\ pc = "done"
    /\ op \in TextDecoders
    /\ result.kind = "Done"
    /\ input[1] = 92
    /\ C7_UnescapedCRs(op) # {}

\* The end of the run of whitespace characters that starts at offset k.
RECURSIVE C8_RunEnd(_, _)
C8_RunEnd(s, k) ==
    IF k < Len(s) /\ char_is_whitespace(decode_utf8(s, k))
    THEN C8_RunEnd(s, k + utf8_width(s[k + 1]))
    ELSE k

\* The text pre is decoded to its end: a quote after it closes it.
C8_Complete(name, pre) ==
    /\ Decode(name, pre \o <<34>>).kind = "Done"
    /\ Decode(name, pre \o <<34>>).rest = <<34>>

\* The offsets of the line continuations of the input: a backslash that
\* the scan meets as an escape, followed by a line ending.
C8_Continuations(name) ==
    {k \in 0..(Len(input) - 2) :
        /\ input[k + 1] = 92
        /\ input[k + 2] \in {10, 13}
        /\ C8_Complete(name, until(input, k))}

\* The input without the continuation at offset k: without the backslash,
\* the line ending and the whitespace run after it.
C8_Without(k) == until(input, k) \o advance(input, C8_RunEnd(input, k + 2))

\* C8: a line continuation emits nothing and skips all the whitespace
\* that follows it: the result (value and cursor) is that of the input
\* with the backslash, the line ending and the whitespace run removed.
C8_LineContinuation ==
    (pc = "done" /\ op \in TextDecoders) =>
        \A k \in C8_Continuations(op) : result = Decode(op, C8_Without(k))

\* C8 witness: a successful decode with a continuation followed by
\* whitespace and then by text.
C8_Witness ==
    /\ pc = "done"
    /\ op \in TextDecoders
    /\ result.kind = "Done"
    /\ result.value # <<>>
    /\ \E k \in C8_Continuations(op) : C8_RunEnd(input, k + 2) > k + 2

\* C9: in cooked_byte_string and cooked_byte, a call on an input that
\* starts with a raw byte of 0x80 or more fails, and without an \x escape
\* no value of 0x80 or more is in a successful result.
C9_RawHighByteFails ==
    (pc = "done" /\ op \in {"cooked_byte_string", "cooked_byte"}) =>
        /\ (input # <<>> /\ input[1] >= 128) => result = Error
        /\ (result.kind = "Done" /\ \A k \in 1..Len(input) : input[k] # 120) =>
              IF op = "cooked_byte" THEN result.value < 128
              ELSE \A k \in 1..Len(result.value) : result.value[k] < 128

\* The characters of the inputs that can continue an identifier: the ASCII
\* letters, the digits, the underscore, the middle dot, e with acute, the
\* Greek alpha and the combining grave accent.
C11_IdentContinue ==
    (48..57) \cup (65..90) \cup {95} \cup (97..122) \cup {183, 233, 945, 768}

\* The cursor s is at the end of the input or before a code point that
\* cannot continue an identifier.
C11_AtBreak(s) == s = <<>> \/ ~(decode_utf8(s, 0) \in C11_IdentContinue)

\* C11, word_break: the call succeeds, returning its input cursor
\* unchanged, exactly when the cursor is at end-of-input or the next code
\* point is not an identifier-continue character.
C11_WordBreakAlone ==
    Returned("word_break") =>
        result = IF C11_AtBreak(input) THEN Done(input, <<>>) ELSE Error

\* C11, keyword: with the leading trivia skipped, the call fails when the
\* token is absent or is immediately followed by an identifier-continue
\* character, and otherwise returns the cursor just past the token; so
\* "bang" is refused in "bangbang;" and taken in "bang bang bang;".
C11_KeywordBreaks ==
    Returned("keyword") =>
        LET s == skip_whitespace(input)
            token == args.token
            after == advance(s, Len(token))
        IN  /\ result = IF starts_with(s, token) /\ C11_AtBreak(after)
                         THEN Done(after, token)
                         ELSE Error
            /\ (starts_with(s, token) /\ after # <<>>
                    /\ decode_utf8(after, 0) \in C11_IdentContinue)
                  => result = Error
            /\ (input = BANG_KEYWORD \o BANG_KEYWORD \o <<SEMICOLON>>
                    /\ token = BANG_KEYWORD) => result = Error
            /\ (input = BANG_KEYWORD \o <<SPACE>> \o BANG_KEYWORD \o <<SPACE>>
                            \o BANG_KEYWORD \o <<SEMICOLON>>
                    /\ token = BANG_KEYWORD)
                  => result = Done(<<SPACE>> \o BANG_KEYWORD \o <<SPACE>>
                                      \o BANG_KEYWORD \o <<SEMICOLON>>,
                                   BANG_KEYWORD)

\* C11: word_break succeeds, consuming nothing, exactly at end-of-input or
\* before a code point that is not an identifier-continue character, and
\* keyword therefore fails whenever its token is immediately followed by
\* an identifier-continue character and otherwise returns the cursor just
\* past the token.
C11_WordBreak == C11_WordBreakAlone /\ C11_KeywordBreaks

\* C11 witness: keyword skipped leading whitespace, found its token, and
\* failed because a Greek letter follows the token.
C11_Witness ==
    /\ Returned("keyword")
    /\ result = Error
    /\ starts_with(input, <<SPACE>>)
    /\ punct(input, args.token).kind = "Done"
    /\ punct(input, args.token).rest # <<>>
    /\ decode_utf8(punct(input, args.token).rest, 0) = 945

\* The text s without its trivia: the spaces and the empty comments.
RECURSIVE C12_Strip(_)
C12_Strip(s) ==
    IF s = <<>> THEN <<>>
    ELSE IF s[1] = 32 THEN C12_Strip(Tail(s))
    ELSE IF Len(s) >= 4 /\ SubSeq(s, 1, 4) = <<47, 42, 42, 47>>
         THEN C12_Strip(SubSeq(s, 5, Len(s)))
    ELSE <<s[1]>> \o C12_Strip(Tail(s))

\* n elements x with one separator between each two: no separator before
\* the first or after the last.
RECURSIVE C12_Pattern(_, _)
C12_Pattern(n, sep) ==
    IF n = 0 THEN <<>>
    ELSE IF n = 1 THEN <<120>>
    ELSE C12_Pattern(n - 1, sep) \o sep \o <<120>>

\* The value an element parser gives for the element x.
C12_Element(f) ==
    IF f = "option" THEN <<1, 120>> ELSE <<120>>

\* "x, x, x,".
C12_Example == <<120, 44, 32, 120, 44, 32, 120, 44>>

\* C12: separated_list does not take a trailing separator, and the
\* terminated list returns the same elements and takes one trailing
\* separator when it is there.  The consumed text, trivia apart, is n
\* elements with n - 1 separators between them (plus, for a terminated
\* list, at most one separator after the last); when the first element
\* fails to parse the list is empty and the cursor unchanged.
C12_TrailingSeparator ==
    Returned("separated_list") =>
        LET sep == args.sep
            n == Len(result.value)
            eaten == C12_Strip(until(input, Consumed))
            plain == separated_list(input, sep, args.f, FALSE)
            more == punct(plain.rest, sep)
        IN  /\ call(args.f, input).kind = "Error" => result = Done(input, <<>>)
            /\ result.kind = "Done" =>
                  /\ \A k \in 1..n : result.value[k] = C12_Element(args.f)
                  /\ n = 0 => result.rest = input
                  /\ ~args.terminated => eaten = C12_Pattern(n, sep)
                  /\ args.terminated =>
                        /\ plain.kind = "Done"
                        /\ result.value = plain.value
                        /\ result.rest = IF n > 0 /\ more.kind = "Done"
                                          THEN more.rest
                                          ELSE plain.rest
                        /\ eaten \in {C12_Pattern(n, sep),
                                       C12_Pattern(n, sep) \o sep}
            /\ (input = C12_Example /\ sep = <<44>> /\ args.f = "punct") =>
                  result = Done(IF args.terminated THEN <<>> ELSE <<44>>,
                                <<(<<120>>), <<120>>, <<120>>>>)

\* C12 witness: a list of two elements or more, not terminated, returned
\* with a separator left at the cursor.
C12_Witness ==
    /\ Returned("separated_list")
    /\ ~args.terminated
    /\ args.sep = <<COMMA>>
    /\ result.kind = "Done"
    /\ Len(result.value) >= 2
    /\ punct(result.rest, args.sep).kind = "Done"

\* The parse at the loop's cursor succeeds without consuming anything:
\* the separator, or the element after it.
C13_ZeroProgress ==
    LET cursor == advance(input, i)
        p == punct(cursor, args.sep)
        e == call(args.f, p.rest)
    IN  /\ p.kind = "Done"
        /\ \/ Len(p.rest) = Len(cursor)
           \/ e.kind = "Done" /\ Len(e.rest) = Len(p.rest)

\* C13, states: inside the loop the cursor is within the input and every
\* element of the list has consumed input; a first element that succeeds
\* without consuming input yields Error.
C13_Bounded ==
    /\ pc = "separated_list" =>
          i \in 1..Len(input) /\ Len(res) \in 1..i
    /\ (Returned("separated_list")
            /\ call(args.f, input).kind = "Done"
            /\ Len(call(args.f, input).rest) = Len(input))
          => result = Error

\* C13, steps: an element is appended only with the remaining length of
\* the cursor strictly smaller, a step that stays in the loop appends one,
\* and a separator or element that succeeds without consuming input ends
\* the loop with the list as it stands.
C13_Step ==
    /\ res' # res => /\ Len(input) - i' < Len(input) - i
                      /\ Len(res') = Len(res) + 1
    /\ (pc = "separated_list" /\ pc' = "separated_list") => res' # res
    /\ (pc = "separated_list" /\ C13_ZeroProgress) =>
          /\ pc' = "done"
          /\ result'.kind = "Done"
          /\ result'.value = res

\* C13: separated_list terminates on every input for every element
\* parser, one that succeeds without consuming input included: the
\* remaining length strictly decreases with each element appended, a
\* zero-progress first element yields Error, a zero-progress separator or
\* later element ends the loop, and every call returns.
C13_Terminates ==
    /\ []C13_Bounded
    /\ [][C13_Step]_vars
    /\ <>(pc = "done")

\* C13 witness: the loop appended a second element and was then ended by
\* an element parser that succeeded without consuming input.
C13_Witness ==
    /\ Returned("separated_list")
    /\ result.kind = "Done"
    /\ Len(result.value) >= 2
    /\ LET p == punct(advance(input, i), args.sep)
           e == call(args.f, p.rest)
       IN  /\ p.kind = "Done"
           /\ e.kind = "Done"
           /\ Len(e.rest) = Len(p.rest)
====
